---- MODULE Spec2Model ----
(***************************************************************************)
(* Model of the standup plugin of warmachine (addons/standup.py) together  *)
(* with the parts of the connection it calls (connections/slack.py).       *)
(*                                                                         *)
(* Time is counted in seconds since an epoch that is a Monday 00:00:00; a  *)
(* datetime is such a count, a timedelta is a difference of two of them.   *)
(* A 24h time such as "09:30" is the sequence of its characters.           *)
(***************************************************************************)
EXTENDS Integers, Sequences, FiniteSets, TLC

\* ------------------------------------------------------------------------
\* Calendar arithmetic (datetime / timedelta)
\* ------------------------------------------------------------------------
SecsPerMinute == 60
SecsPerHour == 60 * 60
HoursPerDay == 24
SecsPerDay == HoursPerDay * SecsPerHour

\* datetime.year/month/day: the calendar day of an instant, as a day number
DayOf(dt) == dt \div SecsPerDay

\* the time of day of an instant, in seconds after midnight
SecOfDay(dt) == dt % SecsPerDay

\* datetime.isoweekday(): Monday is 1, Sunday is 7
isoweekday(dt) == (DayOf(dt) % 7) + 1

\* datetime(year, month, day, hour, minute)
datetime(day, hour, minute) == day * SecsPerDay + hour * SecsPerHour + minute * SecsPerMinute

\* timedelta(hours=hours)
timedelta_hours(hours) == hours * SecsPerHour

\* timedelta.seconds: the seconds field of the normalised (days, seconds)
\* pair, 0 <= seconds < 86400; the days field is not part of it
td_seconds(td) == td % SecsPerDay

\* ------------------------------------------------------------------------
\* Parsing of the 24h time argument: time24h.split(':') and int(s)
\* ------------------------------------------------------------------------
Digits == <<"0", "1", "2", "3", "4", "5", "6", "7", "8", "9">>

IsDigit(ch) == \E i \in 1..Len(Digits) : Digits[i] = ch

DigitVal(ch) == (CHOOSE i \in 1..Len(Digits) : Digits[i] = ch) - 1

\* str.split(':') on a sequence of characters: the list of fields
RECURSIVE split_colon(_)
split_colon(s) ==
    IF \A i \in 1..Len(s) : s[i] # ":"
    THEN <<s>>
    ELSE LET k == CHOOSE i \in 1..Len(s) :
                      s[i] = ":" /\ \A j \in 1..(i - 1) : s[j] # ":"
         IN  <<SubSeq(s, 1, k - 1)>> \o split_colon(SubSeq(s, k + 1, Len(s)))

\* int(s) succeeds on a non-empty string of decimal digits
IntOk(s) == Len(s) > 0 /\ \A i \in 1..Len(s) : IsDigit(s[i])

RECURSIVE int(_)
int(s) == IF Len(s) = 0 THEN 0
          ELSE 10 * int(SubSeq(s, 1, Len(s) - 1)) + DigitVal(s[Len(s)])

\* The two-name unpacking of the fields and the range check of the datetime
\* constructor: FALSE where the code raises ValueError
Time24hOk(time24h) ==
    LET f == split_colon(time24h)
    IN  /\ Len(f) = 2
        /\ IntOk(f[1]) /\ IntOk(f[2])
        /\ int(f[1]) <= 23 /\ int(f[2]) <= 59

standup_hour(time24h) == int(split_colon(time24h)[1])
standup_minute(time24h) == int(split_colon(time24h)[2])

\* '{:02d}:{:02d}': the text of a 24h time as a user types it
Fmt2(n) == <<Digits[(n \div 10) + 1], Digits[(n % 10) + 1]>>
Time24hText(hour, minute) == Fmt2(hour) \o <<":">> \o Fmt2(minute)

\* ------------------------------------------------------------------------
\* get_next_standup_secs: the datetime of the next standup, given the clock
\* ------------------------------------------------------------------------
\* get_next_standup_secs waiting 24 hours on a Saturday as on any other day
get_next_standup_secs_sat24(time24h, now) ==
    LET today == datetime(DayOf(now), standup_hour(time24h), standup_minute(time24h))
        hours == IF isoweekday(now) = 5 THEN 72 ELSE 24
        future == now + timedelta_hours(hours)
    IN  IF now > today \/ isoweekday(now) > 4
        THEN datetime(DayOf(future), standup_hour(time24h), standup_minute(time24h))
        ELSE today

\* get_next_standup_secs skipping 48 hours, not 72, on a Friday
get_next_standup_secs_fri48(time24h, now) ==
    LET today == datetime(DayOf(now), standup_hour(time24h), standup_minute(time24h))
        hours == IF isoweekday(now) = 5 THEN 48 ELSE IF isoweekday(now) = 6 THEN 48 ELSE 24
        future == now + timedelta_hours(hours)
    IN  IF now > today \/ isoweekday(now) > 4
        THEN datetime(DayOf(future), standup_hour(time24h), standup_minute(time24h))
        ELSE today

\* get_next_standup_secs(time24h), with datetime.now() as the argument now
get_next_standup_secs(time24h, now) ==
    LET today == datetime(DayOf(now), standup_hour(time24h), standup_minute(time24h))
        hours == IF isoweekday(now) = 5 THEN 72
                 ELSE IF isoweekday(now) = 6 THEN 48
                 ELSE 24
        future == now + timedelta_hours(hours)
    IN  IF now > today \/ isoweekday(now) > 4
        THEN datetime(DayOf(future), standup_hour(time24h), standup_minute(time24h))
        ELSE today

\* ------------------------------------------------------------------------
\* State of the plugin, the event loop and the settings file
\* ------------------------------------------------------------------------
VARIABLES
    now,                    \* the wall clock (datetime.now()), in seconds
    connected,              \* connections whose on_connect has run
    standup_schedules,      \* self.standup_schedules: channel -> entry
    users_awaiting_reply,   \* self.users_awaiting_reply: user -> record
    timers,                 \* pending loop.call_later handles: id -> callback
    tasks,                  \* coroutines in flight, each suspended at an await
    settings_file,          \* content of standup_schedules.json
    sent,                   \* connection.say calls made by the latest step
    raised,                 \* exceptions raised by handlers so far
    fulfil,                 \* the latest answer handled: whom it is announced to
    inbound,                \* inbound messages the run may still handle
    preempt,                \* times the run may still leave a coroutine in flight
    handled,                \* the message recv_msg was called with in the latest step
    calc                    \* latest get_next_standup_secs call: args, result

vars == <<now, connected, standup_schedules, users_awaiting_reply, timers,
          tasks, settings_file, sent, raised, fulfil, inbound, preempt, handled,
          calc>>

\* Python's None; timer handles are numbered from 1
None == 0

\* message['channel'] of a direct message
NoChannel == ""

\* filler for an argument a callback or coroutine does not have
NoArg == "-"

\* The warmachine message recv_msg is given: message['message'] as its first
\* word (cmd) and the words after it (parts), message['channel'] and
\* message['sender'].  The handlers of the channel commands do not read the
\* sender.
Message(cmd, parts, channel, sender) ==
    [cmd |-> cmd, parts |-> parts, channel |-> channel, sender |-> sender]

\* no message: the latest step was not a call of recv_msg
NoMessage == Message(NoArg, <<>>, NoArg, NoArg)

\* the words of the model that start with '!standup'
StandupWords == {"!standup-add", "!standup-remove", "!standup-ignore",
                 "!standup-schedules", "!standup-waiting_replies"}

\* message['message'].startswith('!standup')
startswith_standup(cmd) == cmd \in StandupWords

\* dict assignment d[k] = v and del d[k]
DictSet(d, k, v) == (k :> v) @@ d
DictDel(d, k) == [x \in DOMAIN d \ {k} |-> d[x]]

\* 'x in list'
InList(x, l) == \E i \in 1..Len(l) : l[i] = x

\* list.remove(x): drops the first occurrence
ListRemove(l, x) ==
    LET k == CHOOSE i \in 1..Len(l) : l[i] = x /\ \A j \in 1..(i - 1) : l[j] # x
    IN  SubSeq(l, 1, k - 1) \o SubSeq(l, k + 1, Len(l))

\* The mutable state one handler step works on.  A step threads a record of
\* this shape through the calls it makes and commits the last one.
Cur == [sch |-> standup_schedules, uar |-> users_awaiting_reply,
        tm |-> timers, file |-> settings_file, out |-> <<>>,
        exc |-> raised, ful |-> fulfil]

\* ------------------------------------------------------------------------
\* The event loop's timers: loop.call_later and TimerHandle.cancel
\* ------------------------------------------------------------------------
\* Handles some object still refers to, or that are still pending
HandlesInUse(s) ==
    DOMAIN s.tm
    \cup {s.sch[c].future : c \in DOMAIN s.sch}
    \cup {s.uar[u].pester_task : u \in {v \in DOMAIN s.uar : "pester_task" \in DOMAIN s.uar[v]}}
    \cup {s.uar[u].clear_standup_msg_f : u \in {v \in DOMAIN s.uar : "clear_standup_msg_f" \in DOMAIN s.uar[v]}}

\* identity of the handle object the next call_later creates
new_handle(s) ==
    CHOOSE h \in 1..(Cardinality(HandlesInUse(s)) + 1) :
        h \notin HandlesInUse(s) /\ \A k \in 1..(h - 1) : k \in HandlesInUse(s)

Callback(kind, conn, channel, user, count, users) ==
    [kind |-> kind, when |-> 0, conn |-> conn, channel |-> channel,
     user |-> user, count |-> count, users |-> users]

call_later(s, delay, cb) ==
    [s EXCEPT !.tm = DictSet(@, new_handle(s), [cb EXCEPT !.when = now + delay])]

\* a cancel that leaves the callback pending
cancel_nothing(s, h) == s

\* cancelling a handle that has run or was cancelled changes nothing
cancel(s, h) == [s EXCEPT !.tm = DictDel(@, h)]

\* connection.say(message, destination)
say(s, msg) == [s EXCEPT !.out = Append(@, msg)]

\* a message said: its destination, what it is, whose answer it is (for a
\* prompt: the channel the prompt is for), its text, and for a prompt the
\* pester_count of the call that sent it
Msg(to, kind, about, text, count) ==
    [to |-> to, kind |-> kind, about |-> about, text |-> text, count |-> count]

\* an exception a handler raises and where; it ends the handler
Exc(exc, at) == [exc |-> exc, at |-> at]

raise(s, exc, at) == [s EXCEPT !.exc = @ \cup {Exc(exc, at)}]

\* ------------------------------------------------------------------------
\* The collaborators: the connection and the channels it knows
\* ------------------------------------------------------------------------
\* connection.nick, the bot's own name
Nick(conn) == "bot"

\* the members get_users_by_channel lists for a channel when the lookup works
Members == [c \in {"#eng", "#ops"} |->
               IF c = "#eng" THEN <<"bot", "alice", "bob">> ELSE <<"alice", "bot">>]

\* get_users_by_channel: the member list, or nothing when the lookup fails
get_users_by_channel(conn, channel) ==
    IF channel \in DOMAIN Members THEN {Members[channel], <<>>} ELSE {<<>>}

\* ------------------------------------------------------------------------
\* Program constants
\* ------------------------------------------------------------------------
PesterDefault == 600
MaxPesterCount == 5
ClearAnswerDelay == 16 * (60 * 60)
CleanChannelDelay == 8 * (60 * 60)

\* ------------------------------------------------------------------------
\* schedule_standup, save_schedule, load_schedule
\* ------------------------------------------------------------------------
\* Called with a time24h that parses (the caller raises ValueError otherwise,
\* inside get_next_standup_secs, before anything is changed).
schedule_standup(s, conn, channel, time24h) ==
    LET next_standup == get_next_standup_secs(time24h, now)
        standup_td == next_standup - now
        next_standup_secs == td_seconds(standup_td)
        f == new_handle(s)
        s1 == call_later(s, next_standup_secs,
                         Callback("standup", conn, channel, NoArg, 0, <<>>))
    IN  IF channel \in DOMAIN s1.sch
        THEN LET s2 == cancel(s1, s1.sch[channel].future)
             IN  [s2 EXCEPT !.sch[channel].future = f,
                            !.sch[channel].datetime = next_standup,
                            !.sch[channel].time24h = time24h]
        ELSE [s1 EXCEPT !.sch = DictSet(@, channel,
                    [future |-> f, datetime |-> next_standup,
                     time24h |-> time24h, ignoring |-> <<>>])]

\* a save that leaves the file as it is
save_schedule_nothing(s, conn) == s

\* a save that writes the times and no ignoring list
save_schedule_times_only(s, conn) ==
    LET data == [c \in DOMAIN s.sch |->
                    [time24h |-> s.sch[c].time24h, ignoring |-> <<>>]]
    IN  [s EXCEPT !.file = [parsable |-> TRUE, data |-> (conn :> data)]]

\* The file is rewritten whole: one top-level key, the connection's id
save_schedule(s, conn) ==
    LET data == [c \in DOMAIN s.sch |->
                    [time24h |-> s.sch[c].time24h, ignoring |-> s.sch[c].ignoring]]
    IN  [s EXCEPT !.file = [parsable |-> TRUE, data |-> (conn :> data)]]

\* the order in which the channels of a file are visited
ChannelOrder == <<"#eng", "#ops">>

\* the for loop of load_schedule without the restore of the ignoring list
RECURSIVE load_loop_times_only(_, _, _)
load_loop_times_only(s, conn, chans) ==
    IF chans = <<>> THEN s
    ELSE LET channel == Head(chans)
             saved == s.file.data[conn][channel]
         IN  IF ~Time24hOk(saved.time24h)
             THEN raise(s, "ValueError", "get_next_standup_secs")
             ELSE load_loop_times_only(schedule_standup(s, conn, channel, saved.time24h),
                                       conn, Tail(chans))

\* The for loop of load_schedule over the channels listed in chans.  Ends
\* with a ValueError at a channel whose time24h does not parse.
RECURSIVE load_loop(_, _, _)
load_loop(s, conn, chans) ==
    IF chans = <<>> THEN s
    ELSE LET channel == Head(chans)
             saved == s.file.data[conn][channel]
         IN  IF ~Time24hOk(saved.time24h)
             THEN raise(s, "ValueError", "get_next_standup_secs")
             ELSE LET s1 == schedule_standup(s, conn, channel, saved.time24h)
                      s2 == IF "ignoring" \in DOMAIN saved
                            THEN [s1 EXCEPT !.sch[channel].ignoring = saved.ignoring]
                            ELSE s1
                  IN  load_loop(s2, conn, Tail(chans))

\* load_schedule without the try around json.loads
load_schedule_unguarded(s, conn) ==
    IF ~s.file.parsable THEN raise(s, "JSONDecodeError", "load_schedule")
    ELSE IF conn \notin DOMAIN s.file.data THEN s
    ELSE load_loop(s, conn,
                   SelectSeq(ChannelOrder, LAMBDA c : c \in DOMAIN s.file.data[conn]))

\* load_schedule: json.loads failing is caught and ends the load; a file
\* without the connection's id ends it as well
load_schedule(s, conn) ==
    IF ~s.file.parsable THEN s
    ELSE IF conn \notin DOMAIN s.file.data THEN s
    ELSE load_loop(s, conn,
                   SelectSeq(ChannelOrder, LAMBDA c : c \in DOMAIN s.file.data[conn]))


\* ''.join(parts): the parts run together, nothing between them
RECURSIVE join_parts(_)
join_parts(parts) == IF parts = <<>> THEN "" ELSE Head(parts) \o join_parts(Tail(parts))

\* ''.join(parts).split(' '): the parts hold no space, so one name results
users_to_ignore(parts) == <<join_parts(parts)>>

\* the for loop of '!standup-ignore': append each user not yet in the list
RECURSIVE ignore_loop(_, _)
ignore_loop(ignoring, users) ==
    IF users = <<>> THEN ignoring
    ELSE ignore_loop(IF InList(Head(users), ignoring) THEN ignoring
                     ELSE Append(ignoring, Head(users)),
                     Tail(users))

\* ------------------------------------------------------------------------
\* Coroutines.  A coroutine in flight is a record: which coroutine, where
\* it stands (pc), its arguments and locals.  A segment runs it from where
\* it stands to its next await, its return or the exception it raises, and
\* yields the state it leaves, the coroutine and whether it has ended.
\* ------------------------------------------------------------------------
Task(kind, pc, conn, channel, user) ==
    [kind |-> kind, pc |-> pc, conn |-> conn, channel |-> channel, user |-> user,
     count |-> 0, users |-> <<>>, idx |-> 0, n |-> 0, msg |-> NoArg]

Awaits(s, t) == [s |-> s, t |-> t, done |-> FALSE]
Ends(s, t) == [s |-> s, t |-> t, done |-> TRUE]

\* standup_priv_msg appending the channel whether or not it is listed
priv_msg_head_append(s, conn, user, channel, pester_count) ==
    LET s1 == IF user \in DOMAIN s.uar
              THEN [s EXCEPT !.uar[user].for_channels = Append(@, channel)]
              ELSE [s EXCEPT !.uar = DictSet(@, user, [for_channels |-> <<channel>>])]
    IN  say(s1, Msg(user, "prompt", channel, s1.uar[user].for_channels, pester_count))

\* standup_priv_msg up to the await of say
priv_msg_head(s, conn, user, channel, pester_count) ==
    LET s1 == IF user \in DOMAIN s.uar
              THEN IF ~InList(channel, s.uar[user].for_channels)
                   THEN [s EXCEPT !.uar[user].for_channels = Append(@, channel)]
                   ELSE s
              ELSE [s EXCEPT !.uar = DictSet(@, user, [for_channels |-> <<channel>>])]
    IN  say(s1, Msg(user, "prompt", channel, s1.uar[user].for_channels, pester_count))

\* standup_priv_msg scheduling one pester more
priv_msg_tail_one_more(s, conn, user, channel, pester, pester_count) ==
    IF pester > 0 /\ pester_count <= MaxPesterCount + 1
    THEN LET f == new_handle(s)
             s1 == call_later(s, pester,
                       Callback("pester", conn, channel, user, pester_count + 1, <<>>))
         IN  IF user \in DOMAIN s1.uar
             THEN [s1 EXCEPT !.uar[user] = DictSet(@, "pester_task", f)]
             ELSE raise(s1, "KeyError", "standup_priv_msg")
    ELSE s

\* standup_priv_msg after the await of say: schedule the next pester
priv_msg_tail(s, conn, user, channel, pester, pester_count) ==
    IF pester > 0 /\ pester_count <= MaxPesterCount
    THEN LET f == new_handle(s)
             s1 == call_later(s, pester,
                       Callback("pester", conn, channel, user, pester_count + 1, <<>>))
         IN  IF user \in DOMAIN s1.uar
             THEN [s1 EXCEPT !.uar[user] = DictSet(@, "pester_task", f)]
             ELSE raise(s1, "KeyError", "standup_priv_msg")
    ELSE s

\* whether priv_msg_tail ends in a KeyError
priv_msg_tail_raises(s, user, pester, pester_count) ==
    pester > 0 /\ pester_count <= MaxPesterCount /\ user \notin DOMAIN s.uar

\* the standup_priv_msg a pester starts
priv_msg_segment(s, t) ==
    IF t.pc = "start"
    THEN Awaits(priv_msg_head(s, t.conn, t.user, t.channel, t.count), [t EXCEPT !.pc = "prompt"])
    ELSE Ends(priv_msg_tail(s, t.conn, t.user, t.channel, PesterDefault, t.count), t)

\* the for loop of start_standup serving the ignored users as well
RECURSIVE standup_loop_ignored_too(_, _, _)
standup_loop_ignored_too(s, t, idx) ==
    IF idx > Len(t.users)
    THEN Ends(call_later(s, CleanChannelDelay,
                         Callback("clean", t.conn, t.channel, NoArg, 0, t.users)), t)
    ELSE LET u == t.users[idx]
         IN  IF u = Nick(t.conn) THEN standup_loop_ignored_too(s, t, idx + 1)
             ELSE IF t.channel \notin DOMAIN s.sch
             THEN Ends(raise(s, "KeyError", "start_standup"), t)
             ELSE IF u \in DOMAIN s.uar /\ "standup_msg" \in DOMAIN s.uar[u]
             THEN Awaits(say(s, Msg(t.channel, "cached", u, s.uar[u].standup_msg, 0)),
                         [t EXCEPT !.pc = "cached", !.idx = idx])
             ELSE Awaits(priv_msg_head(s, t.conn, u, t.channel, 0),
                         [t EXCEPT !.pc = "prompt", !.idx = idx])

\* start_standup: the for loop over the members, from index idx to the next
\* await (the say of a cached answer, or the say inside standup_priv_msg),
\* to the end of the coroutine or to the KeyError of a removed schedule
RECURSIVE standup_loop(_, _, _)
standup_loop(s, t, idx) ==
    IF idx > Len(t.users)
    THEN Ends(call_later(s, CleanChannelDelay,
                         Callback("clean", t.conn, t.channel, NoArg, 0, t.users)), t)
    ELSE LET u == t.users[idx]
         IN  IF u = Nick(t.conn) THEN standup_loop(s, t, idx + 1)
             ELSE IF t.channel \notin DOMAIN s.sch
             THEN Ends(raise(s, "KeyError", "start_standup"), t)
             ELSE IF InList(u, s.sch[t.channel].ignoring)
             THEN standup_loop(s, t, idx + 1)
             ELSE IF u \in DOMAIN s.uar /\ "standup_msg" \in DOMAIN s.uar[u]
             THEN Awaits(say(s, Msg(t.channel, "cached", u, s.uar[u].standup_msg, 0)),
                         [t EXCEPT !.pc = "cached", !.idx = idx])
             ELSE Awaits(priv_msg_head(s, t.conn, u, t.channel, 0),
                         [t EXCEPT !.pc = "prompt", !.idx = idx])

\* start_standup scheduling the clean-up also when there are no users
start_standup_segment_clean_always(s, t, users) ==
    IF t.pc = "start"
    THEN IF users = <<>>
         THEN Ends(call_later(s, CleanChannelDelay,
                              Callback("clean", t.conn, t.channel, NoArg, 0, users)), t)
         ELSE Awaits(say(s, Msg(t.channel, "time_for_standup", NoArg, NoArg, 0)),
                     [t EXCEPT !.pc = "announce", !.users = users])
    ELSE IF t.pc = "announce" THEN standup_loop(s, t, 1)
    ELSE IF t.pc = "cached" THEN standup_loop(s, t, t.idx + 1)
    ELSE IF priv_msg_tail_raises(s, t.users[t.idx], PesterDefault, 0)
    THEN Ends(priv_msg_tail(s, t.conn, t.users[t.idx], t.channel, PesterDefault, 0), t)
    ELSE standup_loop(priv_msg_tail(s, t.conn, t.users[t.idx], t.channel, PesterDefault, 0),
                      t, t.idx + 1)

\* start_standup; users is what get_users_by_channel returns at its start
start_standup_segment(s, t, users) ==
    IF t.pc = "start"
    THEN IF users = <<>> THEN Ends(s, t)
         ELSE Awaits(say(s, Msg(t.channel, "time_for_standup", NoArg, NoArg, 0)),
                     [t EXCEPT !.pc = "announce", !.users = users])
    ELSE IF t.pc = "announce" THEN standup_loop(s, t, 1)
    ELSE IF t.pc = "cached" THEN standup_loop(s, t, t.idx + 1)
    ELSE IF priv_msg_tail_raises(s, t.users[t.idx], PesterDefault, 0)
    THEN Ends(priv_msg_tail(s, t.conn, t.users[t.idx], t.channel, PesterDefault, 0), t)
    ELSE standup_loop(priv_msg_tail(s, t.conn, t.users[t.idx], t.channel, PesterDefault, 0),
                      t, t.idx + 1)

\* list.pop() takes the last element
PopLast(l) == SubSeq(l, 1, Len(l) - 1)

\* one pass of the for loop of the reply branch: pop a channel, say the
\* announcement there; n passes are left to do
reply_loop(s, t) ==
    LET for_channels == s.uar[t.user].for_channels
        c == for_channels[Len(for_channels)]
    IN  IF t.n = 0 THEN Ends([s EXCEPT !.ful.open = FALSE], t)
        ELSE IF Len(for_channels) = 0
        THEN Ends(raise([s EXCEPT !.ful.open = FALSE], "IndexError", "recv_msg"), t)
        ELSE Awaits(say([s EXCEPT !.uar[t.user].for_channels = PopLast(@),
                                  !.ful.ann = Append(@, c)],
                        Msg(c, "announce", t.user, t.msg, 0)),
                    [t EXCEPT !.n = t.n - 1, !.pc = "announce"])

\* the reply branch taken for channel messages as well
is_reply_any_channel(s, message) ==
    /\ ~startswith_standup(message.cmd)
    /\ message.sender \in DOMAIN s.uar

\* the reply branch taken for any sender
is_reply_any_sender(s, message) ==
    /\ ~startswith_standup(message.cmd)
    /\ message.channel = NoChannel

\* the condition of the reply branch of recv_msg: a direct message that
\* does not start with '!standup', from a sender with a record in
\* users_awaiting_reply
is_reply(s, message) ==
    /\ ~startswith_standup(message.cmd)
    /\ message.channel = NoChannel
    /\ message.sender \in DOMAIN s.uar

\* recv_msg, the reply branch
reply_segment(s, t) ==
    IF t.pc = "announce" THEN reply_loop(s, t)
    ELSE IF t.user \notin DOMAIN s.uar THEN Ends(raise(s, "KeyError", "recv_msg"), t)
    ELSE
    LET data == s.uar[t.user]
    IN  IF "pester_task" \in DOMAIN data /\ data.pester_task = None
        THEN Ends(raise(s, "AttributeError", "recv_msg"), t)
        ELSE
        LET s1 == IF "pester_task" \in DOMAIN data
                  THEN [cancel(s, data.pester_task) EXCEPT !.uar[t.user].pester_task = None]
                  ELSE s
            s2 == [s1 EXCEPT !.uar[t.user] = DictSet(@, "standup_msg", t.msg)]
            f == new_handle(s2)
            s3 == call_later(s2, ClearAnswerDelay,
                             Callback("clear", t.conn, NoArg, t.user, 0, <<>>))
            s4 == [s3 EXCEPT !.uar[t.user] = DictSet(@, "clear_standup_msg_f", f),
                             !.ful = [user |-> t.user, snap |-> data.for_channels,
                                      ann |-> <<>>, open |-> TRUE]]
        IN  reply_loop(s4, [t EXCEPT !.n = Len(data.for_channels)])

segment(s, t, users) ==
    IF t.kind = "start_standup" THEN start_standup_segment(s, t, users)
    ELSE IF t.kind = "standup_priv_msg" THEN priv_msg_segment(s, t)
    ELSE reply_segment(s, t)

\* Run a coroutine for at most k segments: an awaited say that completes at
\* once lets the coroutine go on without any other handler running.
RECURSIVE run(_, _, _, _)
run(s, t, users, k) ==
    IF k = 0 THEN Awaits(s, t)
    ELSE LET r == segment(s, t, users)
         IN  IF r.done THEN r ELSE run(r.s, r.t, users, k - 1)

\* more segments than any coroutine has
RunToEnd == 6

\* ------------------------------------------------------------------------
\* Timer callbacks that are plain functions
\* ------------------------------------------------------------------------
\* clear_old_standup_message_schedule_func(user)
clear_old_standup_message(s, user) ==
    IF user \notin DOMAIN s.uar \/ "clear_standup_msg_f" \notin DOMAIN s.uar[user]
    THEN raise(s, "KeyError", "clear_old_standup_message_schedule_func")
    ELSE LET s1 == [s EXCEPT !.uar[user] = DictDel(@, "clear_standup_msg_f")]
         IN  IF "standup_msg" \notin DOMAIN s1.uar[user]
             THEN raise(s1, "KeyError", "clear_old_standup_message_schedule_func")
             ELSE [s1 EXCEPT !.uar[user] = DictDel(@, "standup_msg")]

\* clean_channel_from_waiting_replies(channel, users): the for loop
RECURSIVE clean_loop(_, _, _)
clean_loop(s, channel, users) ==
    IF users = <<>> THEN s
    ELSE LET u == Head(users)
         IN  IF u \notin DOMAIN s.uar THEN clean_loop(s, channel, Tail(users))
             ELSE IF ~InList(channel, s.uar[u].for_channels)
             THEN raise(s, "ValueError", "clean_channel_from_waiting_replies")
             ELSE LET s1 == [s EXCEPT !.uar[u].for_channels = ListRemove(@, channel)]
                  IN  IF s1.uar[u].for_channels # <<>>
                      THEN clean_loop(s1, channel, Tail(users))
                      ELSE IF "pester_task" \notin DOMAIN s1.uar[u]
                      THEN raise(s1, "KeyError", "clean_channel_from_waiting_replies")
                      ELSE IF s1.uar[u].pester_task # None
                      THEN clean_loop(
                               [cancel(s1, s1.uar[u].pester_task)
                                    EXCEPT !.uar[u] = DictDel(@, "pester_task")],
                               channel, Tail(users))
                      ELSE clean_loop(s1, channel, Tail(users))

\* ------------------------------------------------------------------------
\* Steps of the event loop
\* ------------------------------------------------------------------------
\* the number of inbound messages a run of the model handles
MaxInbound == 2

\* the number of times a run of the model leaves a coroutine in flight
\* (queued by ensure_future, or suspended at the await of a say) while other
\* handlers run
MaxPreemptions == 1

RemoveAt(q, i) == SubSeq(q, 1, i - 1) \o SubSeq(q, i + 1, Len(q))

Commit(s, newtasks) ==
    /\ standup_schedules' = s.sch
    /\ users_awaiting_reply' = s.uar
    /\ timers' = s.tm
    /\ settings_file' = s.file
    /\ sent' = s.out
    /\ raised' = s.exc
    /\ fulfil' = s.ful
    /\ tasks' = newtasks
    /\ UNCHANGED <<now, calc>>

\* The outcome r of running a coroutine for k segments: it has ended (k is
\* then RunToEnd), or it stays in flight next to the others
CommitRun(r, others, k) ==
    IF r.done
    THEN k = RunToEnd /\ Commit(r.s, others) /\ UNCHANGED preempt
    ELSE /\ preempt > 0
         /\ preempt' = preempt - 1
         /\ Commit(r.s, Append(others, r.t))

\* The dispatcher awaits recv_msg before it reads the connection's next
\* message: no inbound message is handled while one is still in recv_msg.
ReaderIdle(conn) == \A i \in 1..Len(tasks) : ~(tasks[i].kind = "recv_msg" /\ tasks[i].conn = conn)

\* an inbound message is read from a connected connection and given to
\* recv_msg
Inbound(conn, message) ==
    /\ conn \in connected
    /\ ReaderIdle(conn)
    /\ inbound > 0
    /\ inbound' = inbound - 1
    /\ handled' = message
    /\ UNCHANGED connected

\* on_connect: load the schedules saved for the connection
OnConnect(conn) ==
    /\ conn \notin connected
    /\ connected' = connected \cup {conn}
    /\ handled' = NoMessage
    /\ UNCHANGED <<inbound, preempt>>
    /\ Commit(load_schedule(Cur, conn), tasks)

\* recv_msg, '!standup-add <24h time>' in a channel
StandupAdd(conn, channel, parts) ==
    /\ Inbound(conn, Message("!standup-add", parts, channel, NoArg))
    /\ channel # NoChannel
    /\ UNCHANGED preempt
    /\ LET s1 == IF channel \in DOMAIN standup_schedules
                 THEN cancel(Cur, standup_schedules[channel].future)
                 ELSE Cur
       IN  IF parts = <<>>
           THEN Commit(raise(s1, "IndexError", "recv_msg"), tasks)
           ELSE IF ~Time24hOk(parts[1])
           THEN Commit(raise(s1, "ValueError", "get_next_standup_secs"), tasks)
           ELSE Commit(save_schedule(schedule_standup(s1, conn, channel, parts[1]), conn),
                       tasks)

\* recv_msg, '!standup-remove' in a channel
StandupRemove(conn, channel) ==
    /\ Inbound(conn, Message("!standup-remove", <<>>, channel, NoArg))
    /\ channel # NoChannel
    /\ UNCHANGED preempt
    /\ IF channel \in DOMAIN standup_schedules
       THEN LET s1 == cancel(Cur, standup_schedules[channel].future)
                s2 == [s1 EXCEPT !.sch = DictDel(@, channel)]
            IN  Commit(save_schedule(s2, conn), tasks)
       ELSE Commit(Cur, tasks)

\* recv_msg, '!standup-ignore [users]' in a channel that has a schedule
StandupIgnore(conn, channel, parts) ==
    /\ Inbound(conn, Message("!standup-ignore", parts, channel, NoArg))
    /\ channel # NoChannel
    /\ UNCHANGED preempt
    /\ IF channel \in DOMAIN standup_schedules
       THEN LET s1 == IF parts # <<>>
                      THEN save_schedule(
                             [Cur EXCEPT !.sch[channel].ignoring =
                                  ignore_loop(@, users_to_ignore(parts))], conn)
                      ELSE Cur
            IN  Commit(say(s1, Msg(channel, "ignoring", NoArg, s1.sch[channel].ignoring, 0)),
                       tasks)
       ELSE Commit(Cur, tasks)

\* recv_msg, a direct message that is no command from a tracked sender; the
\* handler runs k segments before another handler runs
RecvReply(conn, sender, text, k) ==
    /\ Inbound(conn, Message(text, <<>>, NoChannel, sender))
    /\ is_reply(Cur, Message(text, <<>>, NoChannel, sender))
    /\ k >= 1
    /\ CommitRun(run(Cur, [Task("recv_msg", "start", conn, NoArg, sender) EXCEPT !.msg = text],
                     <<>>, k),
                 tasks, k)

\* recv_msg past the reply branch, for a direct message: of the commands,
\* '!standup-schedules' and '!standup-waiting_replies' are the ones a direct
\* message reaches; both report to the sender and change nothing
direct_command(s, message) ==
    IF message.cmd = "!standup-schedules"
    THEN LET s1 == say(s, Msg(message.sender, "report", NoArg, "Standup Schedules", 0))
             s2 == say(s1, Msg(message.sender, "report", NoArg, "-----------------", 0))
             s3 == say(s2, Msg(message.sender, "report", NoArg, "Current Loop Time", 0))
             s4 == say(s3, Msg(message.sender, "report", NoArg, now, 0))
         IN  say(s4, Msg(message.sender, "report", NoArg, s.sch, 0))
    ELSE IF message.cmd = "!standup-waiting_replies"
    THEN LET s1 == say(s, Msg(message.sender, "report", NoArg, "Waiting for Replies From", 0))
             s2 == say(s1, Msg(message.sender, "report", NoArg, "------------------------", 0))
         IN  say(s2, Msg(message.sender, "report", NoArg, s.uar, 0))
    ELSE s

\* recv_msg, a direct message that does not take the reply branch.  The
\* says of a report touch no state of the plugin: the handler is one step.
RecvDirect(conn, sender, text) ==
    /\ Inbound(conn, Message(text, <<>>, NoChannel, sender))
    /\ ~is_reply(Cur, Message(text, <<>>, NoChannel, sender))
    /\ UNCHANGED preempt
    /\ Commit(direct_command(Cur, Message(text, <<>>, NoChannel, sender)), tasks)

\* recv_msg, a message in a channel that is none of '!standup-add',
\* '!standup-remove', '!standup-ignore': the condition of the reply branch
\* is evaluated first; past it no command matches and nothing is done
RecvChannel(conn, channel, sender, text) ==
    /\ Inbound(conn, Message(text, <<>>, channel, sender))
    /\ channel # NoChannel
    /\ IF is_reply(Cur, Message(text, <<>>, channel, sender))
       THEN CommitRun(run(Cur, [Task("recv_msg", "start", conn, NoArg, sender)
                                    EXCEPT !.msg = text], <<>>, RunToEnd),
                      tasks, RunToEnd)
       ELSE UNCHANGED preempt /\ Commit(Cur, tasks)

Due(h, kind) == h \in DOMAIN timers /\ timers[h].kind = kind /\ timers[h].when <= now

\* a handle that is run is no longer pending
WithoutTimer(h) == [Cur EXCEPT !.tm = DictDel(@, h)]

\* standup_schedule_func: ensure_future(start_standup(connection, channel));
\* the coroutine then runs k segments before another handler runs
StandupTimer(h, users, k) ==
    /\ Due(h, "standup")
    /\ handled' = NoMessage
    /\ UNCHANGED <<connected, inbound>>
    /\ CommitRun(run(WithoutTimer(h),
                     Task("start_standup", "start", timers[h].conn, timers[h].channel, NoArg),
                     users, k),
                 tasks, k)

\* pester_schedule_func: ensure_future(standup_priv_msg(..., pester_count))
PesterTimer(h, k) ==
    /\ Due(h, "pester")
    /\ handled' = NoMessage
    /\ UNCHANGED <<connected, inbound>>
    /\ CommitRun(run(WithoutTimer(h),
                     [Task("standup_priv_msg", "start", timers[h].conn, timers[h].channel,
                           timers[h].user) EXCEPT !.count = timers[h].count],
                     <<>>, k),
                 tasks, k)

ClearTimer(h) ==
    /\ Due(h, "clear")
    /\ handled' = NoMessage
    /\ UNCHANGED <<connected, inbound, preempt>>
    /\ Commit(clear_old_standup_message(WithoutTimer(h), timers[h].user), tasks)

CleanTimer(h) ==
    /\ Due(h, "clean")
    /\ handled' = NoMessage
    /\ UNCHANGED <<connected, inbound, preempt>>
    /\ Commit(clean_loop(WithoutTimer(h), timers[h].channel, timers[h].users), tasks)

\* what the member lookup of a coroutine can return: start_standup makes
\* one at its start, the other coroutines make none
Lookup(t) ==
    IF t.kind = "start_standup" /\ t.pc = "start"
    THEN get_users_by_channel(t.conn, t.channel)
    ELSE {<<>>}

\* a coroutine in flight goes on, for k segments
Resume(i, users, k) ==
    /\ i \in 1..Len(tasks)
    /\ k >= 1
    /\ handled' = NoMessage
    /\ UNCHANGED <<connected, inbound>>
    /\ CommitRun(run(Cur, tasks[i], users, k), RemoveAt(tasks, i), k)

\* ------------------------------------------------------------------------
\* The clock
\* ------------------------------------------------------------------------
HorizonDays == 9
Horizon == HorizonDays * SecsPerDay

Deadlines == {timers[h].when : h \in DOMAIN timers}

\* Time passes, but not past the time of a pending timer: the loop runs a
\* callback when its time has come.  A coroutine in flight ends before the
\* next timer is due.
Advance(t) ==
    /\ t > now /\ t <= Horizon
    /\ tasks = <<>>
    /\ \A d \in Deadlines : t <= d
    /\ now' = t
    /\ sent' = <<>>
    /\ handled' = NoMessage
    /\ UNCHANGED <<connected, standup_schedules, users_awaiting_reply, timers,
                   tasks, settings_file, raised, fulfil, inbound, preempt, calc>>

\* ------------------------------------------------------------------------
\* The specifications
\* ------------------------------------------------------------------------
Connections == {"A"}
Channels == {"#eng", "#ops"}
People == {"alice", "bob"}
Answers == {"done"}

\* texts of the direct messages: an answer, a command
DirectTexts == Answers \cup {"!standup-schedules"}

\* arguments given to '!standup-add'
AddParts == {<<>>, <<Time24hText(9, 0)>>, <<<<"9">>>>}

\* arguments given to '!standup-ignore'
IgnoreParts == {<<>>, <<"bob">>, <<"alice", "bob">>}

\* the instant at which the bot is started: a Wednesday at 08:00
StartInstants == {datetime(2, 8, 0)}

\* the instants at which the bot is started, over a week: each day at 08:00
\* and at 10:00
WeekInstants == {datetime(d, h, 0) : d \in 0..6, h \in {8, 10}}

EmptyFile == [parsable |-> TRUE, data |-> <<>>]

\* the file left by an earlier run on connection A: both channels at 09:00,
\* bob ignored in #eng
SavedFile ==
    [parsable |-> TRUE,
     data |-> ("A" :> [c \in {"#eng", "#ops"} |->
                          [time24h |-> Time24hText(9, 0),
                           ignoring |-> IF c = "#eng" THEN <<"bob">> ELSE <<>>]])]

NoCalc == [time24h |-> <<>>, now |-> 0, result |-> 0]

NoFulfil == [user |-> NoArg, snap |-> <<>>, ann |-> <<>>, open |-> FALSE]

InitAt(instants, files, messages, preemptions) ==
    /\ now \in instants
    /\ connected = {}
    /\ standup_schedules = <<>>
    /\ users_awaiting_reply = <<>>
    /\ timers = <<>>
    /\ tasks = <<>>
    /\ settings_file \in files
    /\ sent = <<>>
    /\ raised = {}
    /\ fulfil = NoFulfil
    /\ inbound = messages
    /\ preempt = preemptions
    /\ handled = NoMessage
    /\ calc = NoCalc

\* Spec: every handler runs to its end before the next one starts (no say
\* is left waiting).  Started with no schedule saved, or with the schedules
\* an earlier run saved.
Init == InitAt(StartInstants, {EmptyFile, SavedFile}, MaxInbound, 0)

Next ==
    \/ \E conn \in Connections : OnConnect(conn)
    \/ \E conn \in Connections, channel \in Channels, parts \in AddParts :
           StandupAdd(conn, channel, parts)
    \/ \E conn \in Connections, channel \in Channels : StandupRemove(conn, channel)
    \/ \E conn \in Connections, channel \in Channels, parts \in IgnoreParts :
           StandupIgnore(conn, channel, parts)
    \/ \E conn \in Connections, sender \in People, text \in DirectTexts :
           RecvReply(conn, sender, text, RunToEnd)
    \/ \E conn \in Connections, sender \in People, text \in DirectTexts :
           RecvDirect(conn, sender, text)
    \/ \E h \in DOMAIN timers :
           \E users \in get_users_by_channel(timers[h].conn, timers[h].channel) :
               StandupTimer(h, users, RunToEnd)
    \/ \E h \in DOMAIN timers : PesterTimer(h, RunToEnd)
    \/ \E h \in DOMAIN timers : ClearTimer(h)
    \/ \E h \in DOMAIN timers : CleanTimer(h)
    \/ \E t \in Deadlines : Advance(t)

Spec == Init /\ [][Next]_vars

\* SpecWeek: the same, started at any of the instants of a week with the
\* saved schedules
InitWeek == InitAt(WeekInstants, {SavedFile}, MaxInbound - 1, 0)

SpecWeek == InitWeek /\ [][Next]_vars

\* SpecRace: a coroutine may be left in flight (queued by ensure_future, or
\* suspended at the await of a say) while other handlers run
InitRace == InitAt(StartInstants, {SavedFile}, MaxInbound - 1, MaxPreemptions)

NextRace ==
    \/ \E conn \in Connections : OnConnect(conn)
    \/ \E conn \in Connections, channel \in Channels, parts \in AddParts :
           StandupAdd(conn, channel, parts)
    \/ \E conn \in Connections, channel \in Channels : StandupRemove(conn, channel)
    \/ \E conn \in Connections, channel \in Channels, parts \in IgnoreParts :
           StandupIgnore(conn, channel, parts)
    \/ \E conn \in Connections, sender \in People, text \in DirectTexts, k \in 1..RunToEnd :
           RecvReply(conn, sender, text, k)
    \/ \E conn \in Connections, sender \in People, text \in DirectTexts :
           RecvDirect(conn, sender, text)
    \/ \E h \in DOMAIN timers, k \in 0..RunToEnd :
           \E users \in get_users_by_channel(timers[h].conn, timers[h].channel) :
               StandupTimer(h, users, k)
    \/ \E h \in DOMAIN timers, k \in 0..RunToEnd : PesterTimer(h, k)
    \/ \E h \in DOMAIN timers : ClearTimer(h)
    \/ \E h \in DOMAIN timers : CleanTimer(h)
    \/ \E i \in 1..Len(tasks), k \in 1..RunToEnd :
           \E users \in Lookup(tasks[i]) : Resume(i, users, k)
    \/ \E t \in Deadlines : Advance(t)

SpecRace == InitRace /\ [][NextRace]_vars

\* SpecAnswers: as Spec, started with the saved schedules, with one message
\* more and the messages that matter to answers: '!standup-add 09:00' in
\* '#ops' and direct messages of alice
InitAnswers == InitAt(StartInstants, {SavedFile}, MaxInbound + 1, 0)

NextAnswers ==
    \/ \E conn \in Connections : OnConnect(conn)
    \/ \E conn \in Connections : StandupAdd(conn, "#ops", <<Time24hText(9, 0)>>)
    \/ \E conn \in Connections, text \in Answers : RecvReply(conn, "alice", text, RunToEnd)
    \/ \E h \in DOMAIN timers :
           \E users \in get_users_by_channel(timers[h].conn, timers[h].channel) :
               StandupTimer(h, users, RunToEnd)
    \/ \E h \in DOMAIN timers : PesterTimer(h, RunToEnd)
    \/ \E h \in DOMAIN timers : ClearTimer(h)
    \/ \E h \in DOMAIN timers : CleanTimer(h)
    \/ \E t \in Deadlines : Advance(t)

SpecAnswers == InitAnswers /\ [][NextAnswers]_vars

\* SpecStore: as Spec, over the settings files the plugin can find on disk
\* when it is constructed, and with the bot process stopped and started
\* again.
\* no settings file on disk
NoDisk == [missing |-> TRUE]

\* a file whose content json.loads refuses
UnparsableFile == [parsable |-> FALSE, data |-> <<>>]

\* the file left by a run whose connection had the id B
OtherFile ==
    [parsable |-> TRUE,
     data |-> ("B" :> ("#eng" :> [time24h |-> Time24hText(10, 0),
                                  ignoring |-> <<"alice">>]))]

Disks == {NoDisk, UnparsableFile, OtherFile, SavedFile}

\* __init__: a settings file that does not exist is created holding '{}'
init_settings_file(disk) == IF disk = NoDisk THEN EmptyFile ELSE disk

InitStore ==
    InitAt(StartInstants, {init_settings_file(disk) : disk \in Disks}, MaxInbound - 1, 0)

\* The bot process ends and is started again: the plugin is constructed
\* anew, its dicts empty, and the timers of the old event loop are gone;
\* the settings file stays on disk.
Restart ==
    /\ connected # {}
    /\ tasks = <<>>
    /\ connected' = {}
    /\ standup_schedules' = <<>>
    /\ users_awaiting_reply' = <<>>
    /\ timers' = <<>>
    /\ settings_file' = init_settings_file(settings_file)
    /\ sent' = <<>>
    /\ fulfil' = NoFulfil
    /\ handled' = NoMessage
    /\ UNCHANGED <<now, tasks, raised, inbound, preempt, calc>>

NextStore ==
    \/ Next
    \/ Restart

SpecStore == InitStore /\ [][NextStore]_vars

\* SpecTwo: as Spec, with two connections served by the one plugin object:
\* every handler is given the connection the event came through
TwoConnections == {"A", "B"}

InitTwo == InitAt(StartInstants, {EmptyFile, SavedFile}, MaxInbound - 1, 0)

NextTwo ==
    \/ \E conn \in TwoConnections : OnConnect(conn)
    \/ \E conn \in TwoConnections, channel \in Channels, parts \in AddParts :
           StandupAdd(conn, channel, parts)
    \/ \E conn \in TwoConnections, channel \in Channels : StandupRemove(conn, channel)
    \/ \E conn \in TwoConnections, channel \in Channels, parts \in IgnoreParts :
           StandupIgnore(conn, channel, parts)
    \/ \E conn \in TwoConnections, sender \in People, text \in DirectTexts :
           RecvReply(conn, sender, text, RunToEnd)
    \/ \E conn \in TwoConnections, sender \in People, text \in DirectTexts :
           RecvDirect(conn, sender, text)
    \/ \E h \in DOMAIN timers :
           \E users \in get_users_by_channel(timers[h].conn, timers[h].channel) :
               StandupTimer(h, users, RunToEnd)
    \/ \E h \in DOMAIN timers : PesterTimer(h, RunToEnd)
    \/ \E h \in DOMAIN timers : ClearTimer(h)
    \/ \E h \in DOMAIN timers : CleanTimer(h)
    \/ \E t \in Deadlines : Advance(t)

SpecTwo == InitTwo /\ [][NextTwo]_vars

\* SpecMessages: as Spec, started with the saved schedules; the messages
\* are direct messages and the messages of a channel that are no schedule
\* command
InitMessages == InitAt(StartInstants, {SavedFile}, MaxInbound, 0)

NextMessages ==
    \/ \E conn \in Connections : OnConnect(conn)
    \/ \E conn \in Connections, sender \in People, text \in DirectTexts :
           RecvReply(conn, sender, text, RunToEnd)
    \/ \E conn \in Connections, sender \in People, text \in DirectTexts :
           RecvDirect(conn, sender, text)
    \/ \E conn \in Connections, channel \in Channels, sender \in People,
          text \in DirectTexts : RecvChannel(conn, channel, sender, text)
    \/ \E h \in DOMAIN timers :
           \E users \in get_users_by_channel(timers[h].conn, timers[h].channel) :
               StandupTimer(h, users, RunToEnd)
    \/ \E h \in DOMAIN timers : PesterTimer(h, RunToEnd)
    \/ \E h \in DOMAIN timers : ClearTimer(h)
    \/ \E h \in DOMAIN timers : CleanTimer(h)
    \/ \E t \in Deadlines : Advance(t)

SpecMessages == InitMessages /\ [][NextMessages]_vars

\* SpecCalc: get_next_standup_secs alone, called at any of the instants of
\* CalcNows with any of the times of CalcTimes
CalcDays == 7

CalcNows ==
    {datetime(d, h, m) + sec : d \in 0..(CalcDays - 1), h \in 0..(HoursPerDay - 1),
                               m \in {0, 30, 59}, sec \in {0, 1}}

CalcTimes == {Time24hText(h, m) : h \in {0, 9, 12, 23}, m \in {0, 30}}

InitCalc == InitAt(CalcNows, {EmptyFile}, 0, 0)

\* a call of get_next_standup_secs(time24h) at the instant now
CalcCall(time24h) ==
    /\ calc' = [time24h |-> time24h, now |-> now,
                result |-> get_next_standup_secs(time24h, now)]
    /\ UNCHANGED <<now, connected, standup_schedules, users_awaiting_reply, timers,
                   tasks, settings_file, sent, raised, fulfil, inbound, preempt,
                   handled>>

NextCalc == \E time24h \in CalcTimes : CalcCall(time24h)

SpecCalc == InitCalc /\ [][NextCalc]_vars

\* ------------------------------------------------------------------------
\* Properties
\* ------------------------------------------------------------------------
TypeOK == now \in Nat

\* get_next_standup_secs has been called
Called == calc.time24h # <<>>

\* time_of_day on the calendar day of the call
CalcToday == datetime(DayOf(calc.now), standup_hour(calc.time24h), standup_minute(calc.time24h))

\* time_of_day on the calendar day d
CalcOn(d) == datetime(d, standup_hour(calc.time24h), standup_minute(calc.time24h))

Weekday(dt) == isoweekday(dt) <= 5

\* the pending standup callbacks of a channel
LiveStandups(c) == {h \in DOMAIN timers : timers[h].kind = "standup" /\ timers[h].channel = c}

\* the pending pester callbacks of a user
LivePesters(u) == {h \in DOMAIN timers : timers[h].kind = "pester" /\ timers[h].user = u}

\* a step in which the standup callback of channel c has run and start_standup
\* has returned, the channel keeping its entry (the step handles no inbound
\* message: the due callback was run, not cancelled by a command)
FireReturns(c) ==
    /\ inbound' = inbound
    /\ c \in DOMAIN standup_schedules
    /\ standup_schedules[c].future \in LiveStandups(c)
    /\ timers[standup_schedules[c].future].when <= now
    /\ standup_schedules[c].future \notin DOMAIN timers'
    /\ c \in DOMAIN standup_schedules'
    /\ \A i \in 1..Len(tasks') : ~(tasks'[i].kind = "start_standup" /\ tasks'[i].channel = c)

\* C1: when the handler of a fire of a channel's standup callback returns and
\* the channel was not removed, the channel's entry holds a pending callback
\* and a next-fire datetime strictly in the future.
C1_RescheduledAfterFire ==
    [][\A c \in Channels : FireReturns(c) =>
            /\ standup_schedules'[c].future \in DOMAIN timers'
            /\ standup_schedules'[c].datetime > now']_vars

\* C2: every pending standup callback runs on a Monday to Friday, at the time
\* of day configured for its channel.
C2_RunsOnWeekdaysOnly ==
    \A c \in DOMAIN standup_schedules : \A h \in LiveStandups(c) :
        /\ Weekday(timers[h].when)
        /\ SecOfDay(timers[h].when) =
               datetime(0, standup_hour(standup_schedules[c].time24h),
                        standup_minute(standup_schedules[c].time24h))

\* C6: the callback schedule_standup installs runs at the instant stored as
\* the entry's next-fire datetime, which is not in the past.
C6_DelayIsFullDuration ==
    \A c \in DOMAIN standup_schedules :
        standup_schedules[c].future \in DOMAIN timers =>
            /\ timers[standup_schedules[c].future].when = standup_schedules[c].datetime
            /\ timers[standup_schedules[c].future].when >= now

\* C7: each channel has at most one pending standup callback; it is the one
\* the channel's entry stores, and a channel without entry has none.
C7_OneLiveCallback ==
    \A c \in Channels :
        /\ Cardinality(LiveStandups(c)) <= 1
        /\ LiveStandups(c) # {} =>
               /\ c \in DOMAIN standup_schedules
               /\ LiveStandups(c) = {standup_schedules[c].future}

\* '#eng' was added twice to an empty schedule: the second callback is the
\* only one pending
C7_Witness ==
    /\ connected = Connections
    /\ inbound = 0
    /\ DOMAIN standup_schedules = {"#eng"}
    /\ standup_schedules["#eng"].future = 2
    /\ DOMAIN timers = {2}
    /\ timers[2].kind = "standup"

\* every element of the sequence a occurs exactly once in the sequence b,
\* and b has nothing else
SameOnce(a, b) ==
    /\ Len(a) = Len(b)
    /\ \A i \in 1..Len(a) : Cardinality({j \in 1..Len(b) : b[j] = a[i]}) = 1

\* C8: a fulfilled answer has been announced to every channel that was in the
\* responder's for_channels list when the answer arrived, once to each.
C8_AnnouncedOncePerChannel ==
    (fulfil.user # NoArg /\ ~fulfil.open) => SameOnce(fulfil.snap, fulfil.ann)

\* C9: while a responder's answer is held, no pester callback for that
\* responder is pending and no prompt is sent to that responder.
C9_NoPesterAfterAnswer ==
    \A u \in DOMAIN users_awaiting_reply :
        "standup_msg" \in DOMAIN users_awaiting_reply[u] =>
            /\ LivePesters(u) = {}
            /\ \A i \in 1..Len(sent) : ~(sent[i].kind = "prompt" /\ sent[i].to = u)
            /\ \A i \in 1..Len(tasks) :
                   ~(tasks[i].kind = "standup_priv_msg" /\ tasks[i].user = u)

\* C10: a prompt schedules a further pester exactly while its pester_count is
\* at most 5: the prompt with count k <= 5 leaves the pester with count k + 1
\* pending, no prompt and no pending pester has a count above 6 (the pester
\* that would follow the sixth re-prompt does not exist), and the responder's
\* record still exists when the sixth re-prompt is sent.
C10_PesterChainBounded ==
    /\ \A h \in DOMAIN timers : timers[h].kind = "pester" => timers[h].count \in 1..6
    /\ \A i \in 1..Len(sent) : sent[i].kind = "prompt" =>
           /\ sent[i].count <= 6
           /\ sent[i].count = 6 => sent[i].to \in DOMAIN users_awaiting_reply
           /\ sent[i].count <= 5 =>
                  \E h \in LivePesters(sent[i].to) :
                      /\ timers[h].channel = sent[i].about
                      /\ timers[h].count = sent[i].count + 1

\* the sixth re-prompt of a chain has been sent
C10_Witness ==
    \E i \in 1..Len(sent) :
        /\ sent[i].kind = "prompt"
        /\ sent[i].count = 6
        /\ sent[i].to \in DOMAIN users_awaiting_reply
        /\ "standup_msg" \notin DOMAIN users_awaiting_reply[sent[i].to]

\* the number of times x occurs in the list l
Count(x, l) == Cardinality({i \in 1..Len(l) : l[i] = x})

\* C11: a responder's for_channels list holds each channel at most once,
\* whatever number of prompts and pester re-prompts was sent for it.
C11_ChannelListedOnce ==
    \A u \in DOMAIN users_awaiting_reply : \A c \in Channels :
        Count(c, users_awaiting_reply[u].for_channels) <= 1

\* a pester re-prompt for a channel has been sent and the channel is listed
\* once
C11_Witness ==
    \E i \in 1..Len(sent) :
        /\ sent[i].kind = "prompt"
        /\ sent[i].count >= 1
        /\ sent[i].to \in DOMAIN users_awaiting_reply
        /\ Count(sent[i].about, users_awaiting_reply[sent[i].to].for_channels) = 1

\* a step in which recv_msg is given a direct message that is no command,
\* from a sender without record in users_awaiting_reply
UntrackedDirect ==
    /\ handled'.channel = NoChannel
    /\ ~startswith_standup(handled'.cmd)
    /\ handled'.sender \notin DOMAIN users_awaiting_reply

\* C12: a direct message that is no command, from a sender without record,
\* raises nothing, sends nothing and leaves schedules, records, timers and
\* the settings file as they were.
C12_UntrackedDirectIsNoOp ==
    [][UntrackedDirect =>
           /\ raised' = raised
           /\ sent' = <<>>
           /\ UNCHANGED <<standup_schedules, users_awaiting_reply, timers,
                          settings_file, tasks>>]_vars

\* such a message from bob has been handled while alice has a record and
\* callbacks are pending
C12_Witness ==
    /\ handled = Message("done", <<>>, NoChannel, "bob")
    /\ "bob" \notin DOMAIN users_awaiting_reply
    /\ "alice" \in DOMAIN users_awaiting_reply
    /\ timers # <<>>
    /\ raised = {}

\* the pending pester callbacks of user u among the timers tm
PestersIn(tm, u) == {h \in DOMAIN tm : tm[h].kind = "pester" /\ tm[h].user = u}

\* a step in which the clean_channel_from_waiting_replies callback h runs
CleanRuns(h) ==
    /\ h \in DOMAIN timers
    /\ timers[h].kind = "clean"
    /\ timers[h].when <= now
    /\ h \notin DOMAIN timers'

\* user u is listed in the callback h and the callback's channel is the one
\* channel left in u's for_channels
LastChannelOf(h, u) ==
    /\ InList(u, timers[h].users)
    /\ u \in DOMAIN users_awaiting_reply
    /\ users_awaiting_reply[u].for_channels = <<timers[h].channel>>

\* C13: when clean_channel_from_waiting_replies removes the last channel of
\* a responder's for_channels, the responder's record is deleted and no
\* pester for the responder stays pending.
C13_RecordDeletedWithLastChannel ==
    [][\A h \in DOMAIN timers : \A u \in People :
           (CleanRuns(h) /\ LastChannelOf(h, u)) =>
               /\ u \notin DOMAIN users_awaiting_reply'
               /\ PestersIn(timers', u) = {}]_vars

\* C14: the clean_channel_from_waiting_replies callback of a standup run
\* ends without error, sends nothing, and afterwards no listed member who
\* has a record has the channel in for_channels, also when a listed member
\* has answered or was served a cached answer.
C14_ReleaseCompletes ==
    [][\A h \in DOMAIN timers :
           CleanRuns(h) =>
               /\ raised' = raised
               /\ sent' = <<>>
               /\ \A u \in DOMAIN users_awaiting_reply' :
                      InList(u, timers[h].users) =>
                          ~InList(timers[h].channel, users_awaiting_reply'[u].for_channels)]_vars

\* user u has given an answer whose 16-hour expiry has not run
ExpiryPending(u) == \E h \in DOMAIN timers : timers[h].kind = "clear" /\ timers[h].user = u

\* a member of channel c that start_standup serves: not the bot, not ignored
Eligible(c, u) ==
    /\ InList(u, Members[c])
    /\ u # Nick("A")
    /\ ~InList(u, standup_schedules[c].ignoring)

\* a step in which the standup of channel c runs from its announcement to
\* its end
FireAnnounces(c) ==
    /\ FireReturns(c)
    /\ sent' # <<>>
    /\ sent'[1].kind = "time_for_standup"
    /\ sent'[1].to = c

\* the messages of kind kind said to destination to about about, among out
Said(out, kind, to, about) ==
    {i \in 1..Len(out) : out[i].kind = kind /\ out[i].to = to /\ out[i].about = about}

\* a step in which the clear_old_standup_message_schedule_func callback h runs
ClearRuns(h) ==
    /\ h \in DOMAIN timers
    /\ timers[h].kind = "clear"
    /\ timers[h].when <= now
    /\ h \notin DOMAIN timers'

\* C15: at a standup fire a member whose answer's 16-hour expiry has not run
\* gets the cached answer announced to the channel, is not prompted and is
\* not added to for_channels; every other eligible member is prompted.  Once
\* the expiry has run the cached answer is gone.
C15_CachedOrPrompted ==
    [][/\ \A c \in Channels : \A u \in People :
              (FireAnnounces(c) /\ Eligible(c, u)) =>
                  IF ExpiryPending(u)
                  THEN /\ Cardinality(Said(sent', "cached", c, u)) = 1
                       /\ Said(sent', "prompt", u, c) = {}
                       /\ users_awaiting_reply'[u].for_channels =
                              users_awaiting_reply[u].for_channels
                  ELSE /\ Cardinality(Said(sent', "prompt", u, c)) = 1
                       /\ Said(sent', "cached", c, u) = {}
       /\ \A h \in DOMAIN timers :
              (ClearRuns(h) /\ timers[h].user \in DOMAIN users_awaiting_reply') =>
                  "standup_msg" \notin DOMAIN users_awaiting_reply'[timers[h].user]]_vars

\* the standup of channel c has just run from its announcement to its end
JustFired(c) ==
    /\ sent # <<>>
    /\ sent[1].kind = "time_for_standup"
    /\ sent[1].to = c
    /\ tasks = <<>>
    /\ c \in DOMAIN standup_schedules

\* C16: at a standup fire for a channel nothing is said to or about the bot
\* itself or a user of the channel's ignoring list, and every other member
\* is served once, by a prompt or by the cached answer; the ignoring list
\* that on_connect restores is the one of the settings file.
C16_IgnoredNotServed ==
    /\ \A c \in Channels : \A i \in 1..Len(Members[c]) :
           JustFired(c) =>
               LET u == Members[c][i]
                   served == Cardinality(Said(sent, "prompt", u, c))
                             + Cardinality(Said(sent, "cached", c, u))
               IN  IF u = Nick("A") \/ InList(u, standup_schedules[c].ignoring)
                   THEN served = 0
                   ELSE served = 1
    /\ (connected = Connections /\ inbound = MaxInbound) =>
           \A c \in DOMAIN standup_schedules :
               standup_schedules[c].ignoring = settings_file.data["A"][c].ignoring

\* '#eng' has fired with the ignoring list the file gave: bob is not served,
\* alice is prompted
C16_Witness ==
    /\ JustFired("#eng")
    /\ inbound = MaxInbound
    /\ standup_schedules["#eng"].ignoring = <<"bob">>
    /\ Said(sent, "prompt", "bob", "#eng") = {}
    /\ Said(sent, "prompt", "alice", "#eng") # {}

\* the list l starts with the list k
StartsWith(l, k) == Len(k) <= Len(l) /\ SubSeq(l, 1, Len(k)) = k

\* C17: '!standup-ignore u1 ... un' in a channel that has a schedule leaves
\* the ignoring list equal to the old list followed by those of u1..un that
\* were not in it, each once; without users the list is as it was; in a
\* channel without schedule the command changes nothing.
C17_IgnoreMergesUsers ==
    [][handled'.cmd = "!standup-ignore" =>
           LET c == handled'.channel
               parts == handled'.parts
           IN  IF c \in DOMAIN standup_schedules
               THEN /\ c \in DOMAIN standup_schedules'
                    /\ StartsWith(standup_schedules'[c].ignoring, standup_schedules[c].ignoring)
                    /\ \A i \in 1..Len(parts) :
                           Count(parts[i], standup_schedules'[c].ignoring) = 1
                    /\ \A i \in 1..Len(standup_schedules'[c].ignoring) :
                           \/ InList(standup_schedules'[c].ignoring[i], parts)
                           \/ InList(standup_schedules'[c].ignoring[i],
                                     standup_schedules[c].ignoring)
               ELSE /\ sent' = <<>>
                    /\ UNCHANGED <<standup_schedules, settings_file, timers,
                                   users_awaiting_reply>>]_vars

\* the message handled last is a '!standup-add' whose argument is missing or
\* is no 24h time
BadAdd(message) ==
    /\ message.cmd = "!standup-add"
    /\ \/ message.parts = <<>>
       \/ ~Time24hOk(message.parts[1])

\* the message handled last is a '!standup-add' with a 24h time
GoodAdd(message) ==
    /\ message.cmd = "!standup-add"
    /\ message.parts # <<>>
    /\ Time24hOk(message.parts[1])

\* C18: a '!standup-add' whose time argument is missing or malformed leaves
\* the schedules and the file as they were, and the pending callback of a
\* channel that had a schedule is still pending.
C18_BadAddHasNoEffect ==
    [][BadAdd(handled') =>
           /\ UNCHANGED <<standup_schedules, settings_file>>
           /\ \A c \in DOMAIN standup_schedules :
                  standup_schedules[c].future \in DOMAIN timers =>
                      standup_schedules[c].future \in DOMAIN timers']_vars

\* C19: a '!standup-add' with a well-formed time is answered in the channel
\* by a message about the new schedule.
C19_AddIsConfirmed ==
    GoodAdd(handled) =>
        \E i \in 1..Len(sent) : sent[i].to = handled.channel

\* the channels the file lists, under any connection
FileChannels(file) ==
    IF file.parsable
    THEN UNION {DOMAIN file.data[k] : k \in DOMAIN file.data}
    ELSE {}

\* C20: '!standup-remove' in a channel that has a schedule deletes the entry,
\* leaves no pending standup callback of the channel and a file that does not
\* list the channel; in a channel without schedule it changes nothing and
\* the file is not written.
C20_RemoveUnschedules ==
    [][handled'.cmd = "!standup-remove" =>
           LET c == handled'.channel
           IN  IF c \in DOMAIN standup_schedules
               THEN /\ c \notin DOMAIN standup_schedules'
                    /\ standup_schedules[c].future \notin DOMAIN timers'
                    /\ \A h \in DOMAIN timers' :
                           ~(timers'[h].kind = "standup" /\ timers'[h].channel = c)
                    /\ settings_file'.parsable
                    /\ c \notin FileChannels(settings_file')
                    /\ \A d \in DOMAIN standup_schedules \ {c} :
                           /\ d \in DOMAIN standup_schedules'
                           /\ standup_schedules'[d] = standup_schedules[d]
                           /\ d \in FileChannels(settings_file')
               ELSE UNCHANGED <<standup_schedules, settings_file, timers,
                               users_awaiting_reply>>]_vars

C20_Witness ==
    /\ handled.cmd = "!standup-remove"
    /\ handled.channel = "#eng"
    /\ inbound = MaxInbound - 1
    /\ DOMAIN standup_schedules = {"#ops"}
    /\ FileChannels(settings_file) = {"#ops"}
    /\ LiveStandups("#eng") = {}
    /\ LiveStandups("#ops") # {}

\* what load_schedule reads for a connection: the entries under its id
Persisted(file, conn) ==
    IF file.parsable /\ conn \in DOMAIN file.data THEN file.data[conn] ELSE <<>>

\* the keys save_schedule writes of an entry
Projection(sch) ==
    [c \in DOMAIN sch |-> [time24h |-> sch[c].time24h, ignoring |-> sch[c].ignoring]]

\* two channel -> entry mappings with the same channels and entries
SameEntries(d, e) == DOMAIN d = DOMAIN e /\ \A c \in DOMAIN d : d[c] = e[c]

\* C21: no step changes or drops what the file holds under the id of a
\* connection other than the one that saves.
C21_OtherKeysKept ==
    [][settings_file.parsable =>
           \A k \in DOMAIN settings_file.data \ Connections :
               /\ settings_file'.parsable
               /\ k \in DOMAIN settings_file'.data
               /\ settings_file'.data[k] = settings_file.data[k]]_vars

\* a step that is on_connect
ConnectStep == connected' # connected /\ connected' # {}

\* C22: on_connect raises nothing, and with a file that does not parse or
\* has no entry for the connection (as the file created when none existed)
\* it leaves the schedules, the timers and the file as they were.
C22_LoadNeverRaises ==
    [][ConnectStep =>
           /\ raised' = raised
           /\ \A conn \in connected' \ connected :
                  (~settings_file.parsable \/ conn \notin DOMAIN settings_file.data) =>
                      UNCHANGED <<standup_schedules, users_awaiting_reply, timers,
                                  settings_file>>]_vars

C22_Witness ==
    /\ connected = {"A"}
    /\ ~settings_file.parsable
    /\ standup_schedules = <<>>
    /\ timers = <<>>
    /\ raised = {}

\* the file holds for connection A what the schedules in memory hold
InStep == SameEntries(Persisted(settings_file, "A"), Projection(standup_schedules))

\* a step that handles '!standup-add', '!standup-remove' or '!standup-ignore'
MutatingCommand(message) ==
    message.cmd \in {"!standup-add", "!standup-remove", "!standup-ignore"}

\* C23: after a step that handles an add, remove or ignore command the file
\* holds for the connection the time24h and ignoring of every schedule in
\* memory and nothing else; no step makes the two differ once they agree.
C23_FileIsProjection ==
    [][/\ MutatingCommand(handled') => InStep'
       /\ (InStep /\ connected' # {}) => InStep']_vars

C23_Witness ==
    /\ handled.cmd = "!standup-ignore"
    /\ handled.parts = <<"bob">>
    /\ handled.channel = "#ops"
    /\ DOMAIN standup_schedules = {"#eng", "#ops"}
    /\ DOMAIN Persisted(settings_file, "A") = {"#eng", "#ops"}
    /\ standup_schedules["#ops"].ignoring = <<"bob">>
    /\ settings_file.data["A"]["#ops"].ignoring = <<"bob">>
    /\ settings_file.data["A"]["#eng"].ignoring = <<"bob">>

\* C24: when the process ends, the file holds what the schedules in memory
\* hold; the on_connect of the next process, which starts empty, restores
\* from the file the same channels with the same time24h and ignoring, each
\* with one pending standup callback, the one its entry refers to.
C24_SaveLoadRoundTrip ==
    [][/\ (connected # {} /\ connected' = {}) =>
              SameEntries(Persisted(settings_file', "A"), Projection(standup_schedules))
       /\ (ConnectStep /\ standup_schedules = <<>>) =>
              /\ SameEntries(Projection(standup_schedules'), Persisted(settings_file, "A"))
              /\ settings_file' = settings_file
              /\ \A c \in DOMAIN standup_schedules' :
                     {h \in DOMAIN timers' : timers'[h].kind = "standup"
                                             /\ timers'[h].channel = c}
                         = {standup_schedules'[c].future}]_vars

\* connected again after an ignore command of an earlier process was saved
C24_Witness ==
    /\ connected = {"A"}
    /\ inbound = 0
    /\ handled = NoMessage
    /\ sent = <<>>
    /\ DOMAIN standup_schedules = {"#eng", "#ops"}
    /\ standup_schedules["#ops"].ignoring = <<"bob">>
    /\ LiveStandups("#ops") = {standup_schedules["#ops"].future}
    /\ users_awaiting_reply = <<>>
    /\ now = datetime(2, 8, 0)

\* the schedule of channel c has its callback pending
Pending(tm, sch, c) == c \in DOMAIN sch /\ sch[c].future \in DOMAIN tm

\* the connection given to schedule_standup when the pending callback of
\* channel c was made
Owner(tm, sch, c) == tm[sch[c].future].conn

\* C25: a schedule made through one connection is not changed through
\* another one (its pending callback stays that connection's), and a save
\* writes under a connection's id only schedules made through it.
C25_ConnectionsIsolated ==
    [][\A c \in Channels :
           /\ (Pending(timers, standup_schedules, c)
                  /\ Pending(timers', standup_schedules', c)) =>
                  Owner(timers', standup_schedules', c) = Owner(timers, standup_schedules, c)
           /\ (settings_file' # settings_file /\ Pending(timers', standup_schedules', c)) =>
                  \A k \in DOMAIN settings_file'.data :
                      c \in DOMAIN settings_file'.data[k] =>
                          Owner(timers', standup_schedules', c) = k]_vars

\* a step in which the due standup callback h has run and start_standup has
\* returned without 'Time for standup': get_users_by_channel gave no users
SilentFire(h) ==
    /\ Due(h, "standup")
    /\ h \notin DOMAIN timers'
    /\ inbound' = inbound
    /\ Said(sent', "time_for_standup", timers[h].channel, NoArg) = {}
    /\ \A i \in 1..Len(tasks') : tasks'[i].kind # "start_standup"

\* C26: a fire for which get_users_by_channel returns no users says
\* nothing, schedules nothing, and leaves the schedules, the records of the
\* users and the file as they were.
C26_EmptyLookupIsNoOp ==
    [][\A h \in DOMAIN timers :
           SilentFire(h) =>
               /\ sent' = <<>>
               /\ DOMAIN timers' = DOMAIN timers \ {h}
               /\ \A g \in DOMAIN timers' : timers'[g] = timers[g]
               /\ raised' = raised
               /\ UNCHANGED <<standup_schedules, users_awaiting_reply,
                              settings_file, tasks>>]_vars

\* the 09:00 callback of '#eng' has run, nothing was said and nothing is
\* scheduled or tracked
C26_Witness ==
    /\ now = datetime(2, 9, 0)
    /\ handled = NoMessage
    /\ "#eng" \in DOMAIN standup_schedules
    /\ standup_schedules["#eng"].datetime = now
    /\ standup_schedules["#eng"].future \notin DOMAIN timers
    /\ \A h \in DOMAIN timers : timers[h].kind = "standup"
    /\ users_awaiting_reply = <<>>
    /\ sent = <<>>
    /\ raised = {}

\* a step in which the reply branch of recv_msg for responder u stays
\* suspended at the await of an announcement, with announcements left to
\* make: whatever ran in the step was another handler
OtherHandlerRuns(u) ==
    \E i \in 1..Len(tasks) :
        /\ tasks[i].kind = "recv_msg"
        /\ tasks[i].user = u
        /\ tasks[i].n > 0
        /\ \E j \in 1..Len(tasks') : tasks'[j] = tasks[i]

\* C27: while the reply branch for a responder stands between two of its
\* announcements, no other handler changes the responder's record or says
\* anything to or about the responder.
C27_FulfillUninterrupted ==
    [][\A u \in People :
           OtherHandlerRuns(u) =>
               /\ u \in DOMAIN users_awaiting_reply'
               /\ users_awaiting_reply'[u] = users_awaiting_reply[u]
               /\ \A i \in 1..Len(sent') : sent'[i].to # u /\ sent'[i].about # u]_vars

\* what start_standup says for channel c in a list of messages: the
\* announcement, and the prompts of its own calls of standup_priv_msg
\* (pester_count 0)
FireSays(out, c) ==
    {i \in 1..Len(out) :
        \/ out[i].kind = "time_for_standup" /\ out[i].to = c
        \/ out[i].kind = "prompt" /\ out[i].about = c /\ out[i].count = 0}

\* C28: once a channel's schedule is removed, start_standup does nothing
\* more for the channel: it says neither 'Time for standup' nor a prompt
\* and does not look up the deleted entry.
C28_NoFireAfterRemove ==
    [][\A c \in Channels :
           c \notin DOMAIN standup_schedules =>
               /\ FireSays(sent', c) = {}
               /\ Exc("KeyError", "start_standup") \in raised' =>
                      Exc("KeyError", "start_standup") \in raised]_vars

\* the handles a user's record holds under key (none when there is no
\* record, no such key, or None under it)
Stored(u, key) ==
    IF u \in DOMAIN users_awaiting_reply /\ key \in DOMAIN users_awaiting_reply[u]
    THEN {users_awaiting_reply[u][key]} \ {None}
    ELSE {}

\* the pending clear_old_standup_message_schedule_func callbacks of a user
LiveClears(u) == {h \in DOMAIN timers : timers[h].kind = "clear" /\ timers[h].user = u}

\* C29: every pending pester callback of a user is the one the user's
\* record holds as pester_task, and every pending clear callback the one it
\* holds as clear_standup_msg_f.
C29_NoOrphanTimer ==
    \A u \in People :
        /\ LivePesters(u) \subseteq Stored(u, "pester_task")
        /\ LiveClears(u) \subseteq Stored(u, "clear_standup_msg_f")

\* the message is a direct message that does not start with '!standup',
\* from a sender who has a record
IsAnswer(message) ==
    /\ message.channel = NoChannel
    /\ ~startswith_standup(message.cmd)
    /\ message.sender \in DOMAIN users_awaiting_reply

\* the pending pester callbacks
AllPesters(tm) == {h \in DOMAIN tm : tm[h].kind = "pester"}

\* C30: a step that handles a direct message that does not start with
\* '!standup', from a sender with a record, caches the text as the sender's
\* answer (or ends in the AttributeError of a second answer), says only
\* announcements of it and touches neither schedules nor file; a step that
\* handles any other message changes no record, cancels no pester and
\* announces nothing.
C30_AnswerIffTrackedDirect ==
    [][handled' # NoMessage =>
           IF IsAnswer(handled')
           THEN /\ \/ /\ "standup_msg" \in DOMAIN users_awaiting_reply'[handled'.sender]
                       /\ users_awaiting_reply'[handled'.sender].standup_msg = handled'.cmd
                    \/ /\ Exc("AttributeError", "recv_msg") \in raised'
                       /\ Stored(handled'.sender, "pester_task") = {}
                /\ \A i \in 1..Len(sent') :
                       sent'[i].kind = "announce" /\ sent'[i].about = handled'.sender
                /\ UNCHANGED <<standup_schedules, settings_file>>
           ELSE /\ users_awaiting_reply' = users_awaiting_reply
                /\ AllPesters(timers) \subseteq AllPesters(timers')
                /\ \A i \in 1..Len(sent') : sent'[i].kind # "announce"]_vars

\* alice, prompted and not yet answering, wrote 'done' in '#eng': nothing is
\* cached and her pester stays pending
C30_Witness ==
    /\ handled = Message("done", <<>>, "#eng", "alice")
    /\ "alice" \in DOMAIN users_awaiting_reply
    /\ "standup_msg" \notin DOMAIN users_awaiting_reply["alice"]
    /\ LivePesters("alice") # {}
    /\ sent = <<>>

\* C3: called on a weekday (Monday to Friday) at an instant not after today's
\* time_of_day, get_next_standup_secs returns today's date at time_of_day.
C3_TodayWhenNotPast ==
    (Called /\ Weekday(calc.now) /\ calc.now <= CalcToday) => calc.result = CalcToday

\* C4: called on a weekday after today's time_of_day, get_next_standup_secs
\* returns the next calendar day at time_of_day, or the following Monday when
\* that next day is a Saturday or a Sunday.
C4_NextWeekdayWhenPast ==
    (Called /\ Weekday(calc.now) /\ calc.now > CalcToday) =>
        LET tomorrow == DayOf(calc.now) + 1
            monday == CHOOSE d \in tomorrow..(tomorrow + 2) : isoweekday(datetime(d, 0, 0)) = 1
        IN  calc.result = IF Weekday(datetime(tomorrow, 0, 0)) THEN CalcOn(tomorrow)
                          ELSE CalcOn(monday)

\* a call on a Friday after time_of_day has returned the following Monday
C4_Witness ==
    /\ Called
    /\ isoweekday(calc.now) = 5
    /\ calc.now > CalcToday
    /\ isoweekday(calc.result) = 1
    /\ calc.result = CalcOn(DayOf(calc.now) + 3)

\* C5: called on a Friday, get_next_standup_secs never returns a Saturday or a
\* Sunday: the result is the Monday 72 hours after Friday's time_of_day when
\* now is past time_of_day, and that same Friday at time_of_day otherwise.
C5_FridayRule ==
    (Called /\ isoweekday(calc.now) = 5) =>
        /\ Weekday(calc.result)
        /\ calc.now > CalcToday => calc.result >= CalcToday + timedelta_hours(72)
        /\ calc.now <= CalcToday => calc.result = CalcToday

\* the record of user u as clean_channel_from_waiting_replies leaves it when
\* it removes the last channel of a user who did not answer: no channel, the
\* pester_task key deleted, no answer held
Released(u) ==
    /\ u \in DOMAIN users_awaiting_reply
    /\ users_awaiting_reply[u].for_channels = <<>>
    /\ "pester_task" \notin DOMAIN users_awaiting_reply[u]
    /\ "standup_msg" \notin DOMAIN users_awaiting_reply[u]

\* C31: a direct message of a user whose last channel was released without
\* an answer is not kept as the user's answer (what is not kept cannot be
\* announced at a later fire) and schedules no expiry of one.
C31_NoAnswerAfterRelease ==
    [][\A u \in People :
           (Released(u) /\ handled'.sender = u /\ handled'.channel = NoChannel
                       /\ ~startswith_standup(handled'.cmd)) =>
               /\ u \in DOMAIN users_awaiting_reply' =>
                      "standup_msg" \notin DOMAIN users_awaiting_reply'[u]
               /\ \A h \in DOMAIN timers' :
                      (timers'[h].kind = "clear" /\ timers'[h].user = u) =>
                          h \in DOMAIN timers]_vars

\* C32: a step that handles a direct message that does not start with
\* '!standup', from a sender with a record, raises nothing.
C32_AnswerNeverRaises ==
    [][(handled' # NoMessage /\ IsAnswer(handled')) => raised' = raised]_vars

\* the day number of the Monday after the day of an instant
MondayAfter(dt) == DayOf(dt) + (8 - isoweekday(dt))

\* C33: called on a Saturday or a Sunday, get_next_standup_secs returns the
\* following Monday at time_of_day; called on any day, it returns an instant
\* on a Monday to Friday that is not before the instant of the call.
C33_WeekendGoesToMonday ==
    Called =>
        /\ isoweekday(calc.now) >= 6 => calc.result = CalcOn(MondayAfter(calc.now))
        /\ Weekday(calc.result)
        /\ calc.result >= calc.now

\* a call on a Saturday has returned the Monday two days later
C33_Witness ==
    /\ Called
    /\ isoweekday(calc.now) = 6
    /\ isoweekday(calc.result) = 1
    /\ calc.result = CalcOn(DayOf(calc.now) + 2)

====
